---------------------------- MODULE Spec2Model ----------------------------
(***************************************************************************)
(* Model of the document server: the Flask routes of server/routes and the *)
(* VectorStoreManager of server/models/vector_store.py, over an abstract   *)
(* external vector index.  Requests are handled one at a time, each by a   *)
(* fresh VectorStoreManager; one action is one whole request.              *)
(*                                                                         *)
(* The index is a bag of chunks: a chunk is its metadata [doc_id,          *)
(* filename]; vectors that carry the same metadata are interchangeable in  *)
(* every response the routes build, so only their number is kept.          *)
(***************************************************************************)
EXTENDS Integers, Sequences, FiniteSets, Bags, TLC

\* ------------------------------------------------------------------ bounds
\* number of doc_ids uuid4 can hand out in one behaviour
MaxUploads == 2
\* largest k a search request asks for
MaxK == 2
\* segments of the largest uploaded file (one more than delete's top_k)
BigDoc == 10001
\* vectors without doc_id metadata that another writer left in the index
ForeignCount == 1
\* turns of the client's command loop
MaxTurns == 2
\* entries of the documents list a response carries to format_response
MaxDocs == 2

\* --------------------------------------------------------- program constants
\* list_documents: index.query(..., top_k=100)
ListTopK == 100
\* delete_document: index.query(..., top_k=10000)
DeleteTopK == 10000
\* default k of both search routes: data.get('k', 5)
DefaultK == 5

\* config.py: ALLOWED_EXTENSIONS default 'pdf,txt,docx,xlsx'
ALLOWED_EXTENSIONS == {"pdf", "txt", "docx", "xlsx"}

None == "None"
NoDocId == 0
DocIds == 1 .. MaxUploads

Min(a, b) == IF a < b THEN a ELSE b
Max(a, b) == IF a > b THEN a ELSE b

\* ---------------------------------------------------------------- filenames
\* A filename is a sequence of tokens: "." is the dot, "e'" a non-ASCII
\* letter, every other token a run of ASCII letters.
Dot == "."
NonAscii == "e'"

\* str.lower on one token
Lower(tok) == IF tok = "TXT" THEN "txt" ELSE tok

HasDot(filename) == \E i \in 1 .. Len(filename) : filename[i] = Dot

LastDot(filename) ==
    CHOOSE i \in 1 .. Len(filename) :
        /\ filename[i] = Dot
        /\ \A j \in (i + 1) .. Len(filename) : filename[j] # Dot

\* filename.rsplit('.', 1)[1]: what follows the last dot
RSplitExt(filename) == SubSeq(filename, LastDot(filename) + 1, Len(filename))

\* the extension as one lower-case token ("" when nothing follows the dot)
ExtOf(filename) ==
    LET e == RSplitExt(filename)
    IN  IF Len(e) = 1 THEN Lower(e[1]) ELSE IF Len(e) = 0 THEN "" ELSE None

allowed_file_any_dot(filename) == HasDot(filename)

\* documents.py allowed_file
allowed_file(filename) ==
    HasDot(filename) /\ ExtOf(filename) \in ALLOWED_EXTENSIONS

RECURSIVE StripLead(_)
StripLead(s) ==
    IF s # << >> /\ Head(s) = Dot THEN StripLead(Tail(s)) ELSE s

RECURSIVE StripTrail(_)
StripTrail(s) ==
    IF s # << >> /\ s[Len(s)] = Dot
    THEN StripTrail(SubSeq(s, 1, Len(s) - 1))
    ELSE s

\* werkzeug secure_filename: non-ASCII characters are dropped, then leading
\* and trailing dots are stripped
secure_filename(filename) ==
    StripTrail(StripLead(SelectSeq(filename, LAMBDA t : t # NonAscii)))

FileNames ==
    { << >>,
      <<"a", Dot, "txt">>,
      <<"a", Dot, "TXT">>,
      <<"a", Dot, "pdf">>,
      <<"a", Dot, "exe">>,
      <<"a">>,
      <<"a", Dot>>,
      <<NonAscii, Dot, "txt">> }


\* ------------------------------------------------------------------- chunks
\* the metadata the upload route attaches to every segment
Chunk(doc_id, filename) == [doc_id |-> doc_id, filename |-> filename]

\* a vector some other writer stored: no 'doc_id' key in its metadata
ForeignChunk == Chunk(NoDocId, <<"other">>)

BagOf(x, n) == IF n <= 0 THEN EmptyBag ELSE [e \in {x} |-> n]

\* the sub-bags of B that hold exactly n elements
RECURSIVE SubBagsOver(_, _, _)
SubBagsOver(kinds, B, n) ==
    IF kinds = {}
    THEN IF n = 0 THEN {EmptyBag} ELSE {}
    ELSE LET x    == CHOOSE x \in kinds : TRUE
             rest == kinds \ {x}
             left == BagCardinality([e \in rest |-> B[e]])
         IN  UNION { { BagOf(x, c) (+) s : s \in SubBagsOver(rest, B, n - c) }
                     : c \in Max(0, n - left) .. Min(B[x], n) }

SubBagsOfSize(B, n) == SubBagsOver(BagToSet(B), B, n)

\* ----------------------------------------------------- the external index
\* metadata filters the manager passes to the index
FilterAll == [op |-> "all", doc_id |-> NoDocId]
FilterEq(doc_id) == [op |-> "eq", doc_id |-> doc_id]
FilterNe(doc_id) == [op |-> "ne", doc_id |-> doc_id]

Satisfies(c, filter) ==
    CASE filter.op = "all" -> TRUE
      [] filter.op = "eq"  -> c.doc_id # NoDocId /\ c.doc_id = filter.doc_id
      [] filter.op = "ne"  -> c.doc_id # filter.doc_id

Matching(vecs, filter) ==
    LET keep == { c \in BagToSet(vecs) : Satisfies(c, filter) }
    IN  [c \in keep |-> vecs[c]]

\* the n-element sub-bags of B got by taking B's kinds one after the other,
\* in any order, each as far as it goes
RECURSIVE TakesOver(_, _, _)
TakesOver(kinds, B, n) ==
    IF n = 0 \/ kinds = {}
    THEN {EmptyBag}
    ELSE UNION { { BagOf(x, Min(B[x], n)) (+) s :
                     s \in TakesOver(kinds \ {x}, B, n - Min(B[x], n)) }
                 : x \in kinds }

\* index.query(filter, top_k): the top_k best matches; which of the matching
\* vectors rank best is the index's business.  For the small top_k of the
\* searches any top_k of the matches may come; for the large top_k of list
\* and delete the rankings tried are those that order the vectors document
\* by document.
IndexQuery(vecs, filter, top_k) ==
    LET m == Matching(vecs, filter)
        n == Min(top_k, BagCardinality(m))
    IN  IF top_k <= DefaultK + 1
        THEN SubBagsOfSize(m, n)
        ELSE TakesOver(BagToSet(m), m, n)

\* what add_documents can leave behind when the provider fails part-way:
\* the batches written before the failure
PartialWrites(n) == { k \in {0, 1, n - 1} : 0 <= k /\ k < n }


\* ------------------------------------------------------ VectorStoreManager
\* What the provider does during one request: nothing wrong ("ok"), the
\* client construction or list_indexes raises ("init_fail"), the first or the
\* second data call of the operation raises ("call1_fail", "call2_fail").
Envs == {"ok", "init_fail", "call1_fail", "call2_fail"}
Envs1 == {"ok", "init_fail", "call1_fail"}

ErrInit == "provider error at construction"
ErrProvider == "provider error"
ErrNotInitialized == "Vector store not initialized"
ErrDocNotFound == "Document with ID not found"

\* The calls a handler makes are logged one name per call site: the
\* constructor's list_indexes and Index, and the methods' own
\* "pc.list_indexes" and "pc.Index".
InitCalls == <<"Pinecone", "OpenAIEmbeddings", "list_indexes">>

MAX_RETRIES == 3

AttemptedWithRetries(log) ==
    log \o [i \in 1 .. MAX_RETRIES |-> log[Len(log)]]

\* the log of a handler whose last call raised: every call stands in a
\* plain `try: ... except Exception: ... raise`, none in a loop
Attempted(log) == log

\* __init__ / _initialize: vector_store is set only when list_indexes names
\* the configured index; a failure is re-raised
Initialize(env, exists) ==
    IF env = "init_fail"
    THEN [ok |-> FALSE, vector_store |-> FALSE, calls |-> Attempted(InitCalls)]
    ELSE [ok |-> TRUE, vector_store |-> exists,
          calls |-> IF exists THEN InitCalls \o <<"Index">> ELSE InitCalls]

\* the outcome of one manager method
Raise(err, vecs, calls) ==
    [ok |-> FALSE, err |-> err, vecs |-> vecs, calls |-> calls,
     found |-> FALSE, results |-> EmptyBag, documents |-> {}, total |-> 0]

Return(vecs, calls) ==
    [ok |-> TRUE, err |-> "", vecs |-> vecs, calls |-> calls,
     found |-> TRUE, results |-> EmptyBag, documents |-> {}, total |-> 0]

NoGuard(m) == FALSE

\* `if not self.vector_store: raise ValueError("Vector store not initialized")`
NotInitialized(m) == ~m.vector_store

\* a data call on an index that does not exist fails at the provider
Down(env, exists, failing) == env = failing \/ ~exists

\* add_documents(documents): texts is the bag of tagged segments
add_documents(m, env, exists, vecs, texts) ==
    IF NotInitialized(m)
    THEN {Raise(ErrNotInitialized, vecs, << >>)}
    ELSE IF Down(env, exists, "call1_fail")
    THEN { Raise(ErrProvider, vecs (+) w, Attempted(<<"vs.add_documents">>)) :
             w \in UNION { SubBagsOfSize(texts, k) :
                             k \in IF exists
                                   THEN PartialWrites(BagCardinality(texts))
                                   ELSE {0} } }
    ELSE {Return(vecs (+) texts, <<"vs.add_documents">>)}

similarity_search_consuming(m, env, exists, vecs, k, filter, failing) ==
    IF NotInitialized(m)
    THEN {Raise(ErrNotInitialized, vecs, << >>)}
    ELSE IF Down(env, exists, failing)
    THEN {Raise(ErrProvider, vecs,
                Attempted(<<"vs.similarity_search_with_score">>))}
    ELSE { [Return(vecs (-) r, <<"vs.similarity_search_with_score">>)
               EXCEPT !.results = r] : r \in IndexQuery(vecs, filter, k) }

\* similarity_search(query, k, filter)
similarity_search(m, env, exists, vecs, k, filter, failing) ==
    IF NotInitialized(m)
    THEN {Raise(ErrNotInitialized, vecs, << >>)}
    ELSE IF Down(env, exists, failing)
    THEN {Raise(ErrProvider, vecs,
                Attempted(<<"vs.similarity_search_with_score">>))}
    ELSE { [Return(vecs, <<"vs.similarity_search_with_score">>)
               EXCEPT !.results = r] : r \in IndexQuery(vecs, filter, k) }

SimilarFilterAll(doc_id) == FilterAll

\* filter={"doc_id": {"$ne": doc_id}}
SimilarFilter(doc_id) == FilterNe(doc_id)

\* results[:k]
Truncate(results, k) ==
    SubBagsOfSize(results, Min(k, BagCardinality(results)))

\* find_similar_documents(doc_id, k)
find_similar_documents(m, env, exists, vecs, doc_id, k) ==
    IF NotInitialized(m)
    THEN {Raise(ErrNotInitialized, vecs, << >>)}
    ELSE IF Down(env, exists, "call1_fail")
    THEN {Raise(ErrProvider, vecs, Attempted(<<"vs.similarity_search">>))}
    ELSE UNION {
           IF reference_docs = EmptyBag
           THEN {Raise(ErrDocNotFound, vecs, <<"vs.similarity_search">>)}
           ELSE UNION {
                  IF o.ok
                  THEN { [o EXCEPT !.results = t,
                                   !.calls = <<"vs.similarity_search">> \o @] :
                           t \in Truncate(o.results, k) }
                  ELSE { [o EXCEPT !.calls = <<"vs.similarity_search">> \o @] }
                  : o \in similarity_search(m, env, exists, vecs, k + 1,
                                            SimilarFilter(doc_id), "call2_fail") }
           : reference_docs \in IndexQuery(vecs, FilterEq(doc_id), 1) }


DeleteFilterAll(doc_id) == FilterAll

\* filter={"doc_id": doc_id}
DeleteFilter(doc_id) == FilterEq(doc_id)

\* delete_document(doc_id): True when vectors were found and deleted, False
\* when the filter query matched nothing
delete_document(m, env, exists, vecs, doc_id) ==
    IF NotInitialized(m)
    THEN {Raise(ErrNotInitialized, vecs, << >>)}
    ELSE IF Down(env, exists, "call1_fail")
    THEN {Raise(ErrProvider, vecs, Attempted(<<"pc.Index", "index.query">>))}
    ELSE { IF matches = EmptyBag
           THEN [Return(vecs, <<"pc.Index", "index.query">>) EXCEPT !.found = FALSE]
           ELSE IF env = "call2_fail"
           THEN Raise(ErrProvider, vecs,
                      Attempted(<<"pc.Index", "index.query", "index.delete">>))
           ELSE Return(vecs (-) matches,
                       <<"pc.Index", "index.query", "index.delete">>)
           : matches \in IndexQuery(vecs, DeleteFilter(doc_id), DeleteTopK) }

\* the number of sampled vectors that carry doc_id
CountOf(sample, doc_id) == BagCardinality(Matching(sample, FilterEq(doc_id)))

GroupEveryMatch(sample) ==
    LET kinds == BagToSet(sample)
        ids   == { c.doc_id : c \in kinds }
    IN  { { [doc_id |-> d, filename |-> first[d].filename,
             chunk_count |-> CountOf(sample, d)] : d \in ids }
          : first \in { f \in [ids -> kinds] : \A d \in ids : f[d].doc_id = d } }

\* the grouping loop of list_documents: one entry per doc_id met among the
\* matches, filename taken from the first match met with that doc_id
GroupByDocId(sample) ==
    LET kinds == { c \in BagToSet(sample) : c.doc_id # NoDocId }
        ids   == { c.doc_id : c \in kinds }
    IN  { { [doc_id |-> d, filename |-> first[d].filename,
             chunk_count |-> CountOf(sample, d)] : d \in ids }
          : first \in { f \in [ids -> kinds] : \A d \in ids : f[d].doc_id = d } }

ListCalls == <<"pc.Index", "describe_index_stats", "index.query">>

\* list_documents()
list_documents(m, env, exists, vecs) ==
    IF NotInitialized(m)
    THEN {Raise(ErrNotInitialized, vecs, << >>)}
    ELSE IF Down(env, exists, "call1_fail")
    THEN {Raise(ErrProvider, vecs,
                Attempted(<<"pc.Index", "describe_index_stats">>))}
    ELSE IF env = "call2_fail"
    THEN {Raise(ErrProvider, vecs, Attempted(ListCalls))}
    ELSE UNION { { [Return(vecs, ListCalls) EXCEPT !.documents = docs,
                                                    !.results = sample] :
                     docs \in GroupByDocId(sample) }
                 : sample \in IndexQuery(vecs, FilterAll, ListTopK) }

\* get_stats()
get_stats(m, env, exists, vecs) ==
    IF NotInitialized(m)
    THEN {Raise(ErrNotInitialized, vecs, << >>)}
    ELSE IF Down(env, exists, "call1_fail")
    THEN {Raise(ErrProvider, vecs,
                Attempted(<<"pc.Index", "describe_index_stats">>))}
    ELSE {[Return(vecs, <<"pc.Index", "describe_index_stats">>)
              EXCEPT !.total = BagCardinality(vecs)]}

IndexResult(ok, exists, created, log) ==
    [ok |-> ok, exists |-> exists, created |-> created, vector_store |-> ok,
     calls |-> IF ok THEN log ELSE Attempted(log)]

init_index_always_create(m, env, exists) ==
    IF env = "call1_fail"
    THEN IndexResult(FALSE, exists, 0, <<"pc.list_indexes">>)
    ELSE IF env = "call2_fail"
    THEN IndexResult(FALSE, exists, 0, <<"pc.list_indexes", "create_index">>)
    ELSE IndexResult(TRUE, TRUE, 1,
                     <<"pc.list_indexes", "create_index", "pc.Index">>)

\* init_index(): create the index when list_indexes does not name it, then
\* connect; `created` tells whether create_index went through, vector_store
\* whether the manager's store was set
init_index(m, env, exists) ==
    IF env = "call1_fail"
    THEN IndexResult(FALSE, exists, 0, <<"pc.list_indexes">>)
    ELSE IF ~exists
    THEN IF env = "call2_fail"
         THEN IndexResult(FALSE, exists, 0,
                          <<"pc.list_indexes", "create_index">>)
         ELSE IndexResult(TRUE, TRUE, 1,
                          <<"pc.list_indexes", "create_index", "pc.Index">>)
    ELSE IF env = "call2_fail"
    THEN IndexResult(FALSE, exists, 0, <<"pc.list_indexes", "pc.Index">>)
    ELSE IndexResult(TRUE, TRUE, 0, <<"pc.list_indexes", "pc.Index">>)


\* ------------------------------------------------------ requests, responses
\* what an uploaded file holds: the pages with text a PDF reader finds in
\* it, and the segments the splitter cuts its text into
Contents ==
    { [pages |-> 0, segs |-> 0],
      [pages |-> 1, segs |-> 2],
      [pages |-> 1, segs |-> BigDoc] }

NoContent == [pages |-> 0, segs |-> 0]

\* the k of a search request: absent, or a number
NoK == 0 - 1
Ks == {NoK} \cup (0 .. MaxK)

\* the body of a POST to a search route: a JSON object (`present` tells
\* whether it holds the required field), no JSON at all (no body, or a
\* Content-Type other than application/json), or a body sent as
\* application/json that does not parse (an empty one included)
JsonBodies == {"object", "none", "invalid"}

Request(op) ==
    [op |-> op, present |-> TRUE, filename |-> << >>, content |-> NoContent,
     env |-> "ok", doc_id |-> NoDocId, k |-> NoK, filter |-> FilterAll,
     json |-> "object"]

NoPath == << >>

\* what the handler of the last request did inside: the doc_id it drew, the
\* temporary file it chose, the loader's documents and the tagged segments it
\* handed to add_documents, the number of them the provider had stored when
\* add_documents returned or raised, the message of the exception the
\* handler caught, whether the manager's vector_store ended up set, how
\* many create_index calls of the handler went through, and the matches the
\* sampling query of list_documents returned
Aux ==
    [doc_id |-> NoDocId, temp_path |-> NoPath, saved |-> FALSE,
     docs |-> 0, texts |-> EmptyBag, handed |-> FALSE, written |-> 0,
     raised |-> "", vector_store |-> FALSE, created |-> 0,
     sample |-> EmptyBag]

Response(op, status, err) ==
    [op |-> op, status |-> status, err |-> err, doc_id |-> NoDocId,
     filename |-> << >>, chunks_created |-> 0, documents |-> {},
     results |-> EmptyBag, total |-> 0]

\* the state a handler leaves: its response, the index, the temporary files,
\* the doc_ids drawn so far, the external calls it made
Outcome(resp, vecs, tmpfiles, ids, log, a) ==
    [resp |-> resp, vecs |-> vecs, tmp |-> tmpfiles, issued |-> ids,
     calls |-> log, aux |-> a]

GenericErrorText(e) == "Internal server error"

\* f'...: {str(e)}': the text of the 500 carries the message of the
\* exception the route caught
ErrorText(e) == e

\* except Exception as e: return jsonify({'error': f'...{str(e)}'}), 500
Caught(op, e, vecs, tmpfiles, ids, log, a) ==
    Outcome(Response(op, 500, ErrorText(e)), vecs, tmpfiles, ids, log,
            [a EXCEPT !.raised = e])

RollBack(before, after) == before

\* the index after add_documents raised: the except branch of the upload
\* route deletes nothing, what the provider stored stays
AfterFailedAdd(before, after) == after

\* ------------------------------------------------------------ upload route
FixedDocId(ids, vecs) == {1}

\* str(uuid.uuid4()): an id no earlier call returned and no stored chunk
\* carries; ids are opaque, so the least unused one stands for any of them
NewDocId(ids, vecs) ==
    LET used  == ids \cup { c.doc_id : c \in BagToSet(vecs) }
        fresh == DocIds \ used
    IN  IF fresh = {} THEN {} ELSE {CHOOSE d \in fresh : \A e \in fresh : d <= e}

TempPathByName(doc_id, filename) == <<NoDocId, filename>>

\* temp_path = f"/tmp/{doc_id}_{filename}"
TempPath(doc_id, filename) == <<doc_id, filename>>

LoadResult(ok, err, docs) == [ok |-> ok, err |-> err, docs |-> docs]

\* load_document(file_path, filename): the number of Documents read
load_document(filename, content, env) ==
    IF ~HasDot(filename)
    THEN LoadResult(FALSE, "IndexError", 0)
    ELSE LET file_ext == ExtOf(filename)
         IN  IF file_ext \notin ALLOWED_EXTENSIONS
             THEN LoadResult(FALSE, "Unsupported file type", 0)
             ELSE IF env = "load_fail"
             THEN LoadResult(FALSE, "Error loading file", 0)
             ELSE IF file_ext = "pdf"
             THEN LoadResult(TRUE, "", content.pages)
             ELSE LoadResult(TRUE, "", 1)

\* text_splitter.split_documents(documents): the number of segments
split_documents(docs, content) == IF docs = 0 THEN 0 ELSE content.segs

\* the metadata loop: every segment gets doc_id and filename
TagSegments(n, doc_id, filename) == BagOf(Chunk(doc_id, filename), n)

ChunksCreatedDocs(docs, texts) == docs

\* 'chunks_created': len(texts)
ChunksCreated(docs, texts) == BagCardinality(texts)

\* finally: if os.path.exists(temp_path): os.remove(temp_path)
Cleanup(tmpfiles, temp_path) == tmpfiles \ {temp_path}

UploadEnvs ==
    {"ok", "save_fail", "save_partial", "load_fail", "init_fail", "call1_fail"}

upload_document(r, exists, vecs, tmpfiles, ids) ==
    IF ~r.present
    THEN {Outcome(Response("upload", 400, "No file provided"),
                  vecs, tmpfiles, ids, << >>, Aux)}
    ELSE IF r.filename = << >>
    THEN {Outcome(Response("upload", 400, "No file selected"),
                  vecs, tmpfiles, ids, << >>, Aux)}
    ELSE IF ~allowed_file(r.filename)
    THEN {Outcome(Response("upload", 400, "File type not allowed"),
                  vecs, tmpfiles, ids, << >>, Aux)}
    ELSE UNION {
      LET filename  == secure_filename(r.filename)
          temp_path == TempPath(doc_id, filename)
          a0        == [Aux EXCEPT !.doc_id = doc_id, !.temp_path = temp_path]
          drawn     == ids \cup {doc_id}
      IN
      \* file.save(temp_path) stands before the try/finally
      IF r.env = "save_fail"
      THEN {Caught("upload", "save failed", vecs, tmpfiles, drawn, << >>, a0)}
      ELSE IF r.env = "save_partial"
      THEN {Caught("upload", "save failed", vecs, tmpfiles \cup {temp_path},
                   drawn, << >>, [a0 EXCEPT !.saved = TRUE])}
      ELSE
      LET written == tmpfiles \cup {temp_path}
          a1      == [a0 EXCEPT !.saved = TRUE]
          ld      == load_document(filename, r.content, r.env)
      IN
      IF ~ld.ok
      THEN {Caught("upload", ld.err, vecs, Cleanup(written, temp_path),
                   drawn, << >>, a1)}
      ELSE
      LET texts == TagSegments(split_documents(ld.docs, r.content),
                               doc_id, filename)
          a2    == [a1 EXCEPT !.docs = ld.docs, !.texts = texts]
          m     == Initialize(r.env, exists)
      IN
      IF ~m.ok
      THEN {Caught("upload", ErrInit, vecs, Cleanup(written, temp_path),
                   drawn, m.calls, a2)}
      ELSE
      { LET a3 == [a2 EXCEPT !.handed = (o.calls # << >>),
                             !.written = BagCardinality(o.vecs (-) vecs),
                             !.vector_store = m.vector_store]
        IN  IF o.ok
            THEN Outcome([Response("upload", 201, "") EXCEPT
                            !.doc_id = doc_id, !.filename = filename,
                            !.chunks_created = ChunksCreated(ld.docs, texts)],
                         o.vecs, Cleanup(written, temp_path), drawn,
                         m.calls \o o.calls, a3)
            ELSE Caught("upload", o.err, AfterFailedAdd(vecs, o.vecs),
                        Cleanup(written, temp_path), drawn,
                        m.calls \o o.calls, a3)
        : o \in add_documents(m, r.env, exists, vecs, texts) }
      : doc_id \in NewDocId(ids, vecs) }


\* ------------------------------------------------------- the other routes
\* the except branch of a route that keeps nothing of its own
Failed(op, err, vecs, tmpfiles, ids, log) ==
    Caught(op, err, vecs, tmpfiles, ids, log, Aux)

\* GET /api/documents
list_documents_route(r, exists, vecs, tmpfiles, ids) ==
    LET m == Initialize(r.env, exists)
    IN  IF ~m.ok
        THEN {Failed("list", ErrInit, vecs, tmpfiles, ids, m.calls)}
        ELSE { IF o.ok
               THEN Outcome([Response("list", 200, "") EXCEPT
                               !.documents = o.documents],
                            o.vecs, tmpfiles, ids, m.calls \o o.calls,
                            [Aux EXCEPT !.sample = o.results])
               ELSE Failed("list", o.err, o.vecs, tmpfiles, ids,
                           m.calls \o o.calls)
               : o \in list_documents(m, r.env, exists, vecs) }

DeleteStatusAlwaysOk(success) == 200

\* `if success:` 200, else 404 'Document not found'
DeleteStatus(success) == IF success THEN 200 ELSE 404

\* DELETE /api/documents/<doc_id>
delete_document_route(r, exists, vecs, tmpfiles, ids) ==
    LET m == Initialize(r.env, exists)
    IN  IF ~m.ok
        THEN {Failed("delete", ErrInit, vecs, tmpfiles, ids, m.calls)}
        ELSE { IF o.ok
               THEN Outcome(Response("delete", DeleteStatus(o.found),
                                     IF DeleteStatus(o.found) = 200
                                     THEN "" ELSE "Document not found"),
                            o.vecs, tmpfiles, ids, m.calls \o o.calls, Aux)
               ELSE Failed("delete", o.err, o.vecs, tmpfiles, ids,
                           m.calls \o o.calls)
               : o \in delete_document(m, r.env, exists, vecs, r.doc_id) }

ErrNotJson == "415 Unsupported Media Type"
ErrBadJson == "400 Bad Request"

\* request.get_json(): the parsed object; raises when the request does not
\* declare JSON or its body does not parse (the Flask that has the
\* `flask --app` option this server is started with)
get_json(r) ==
    CASE r.json = "object"  -> [raised |-> FALSE, err |-> ""]
      [] r.json = "none"    -> [raised |-> TRUE, err |-> ErrNotJson]
      [] r.json = "invalid" -> [raised |-> TRUE, err |-> ErrBadJson]

\* data.get('k', 5)
KOf(k) == IF k = NoK THEN DefaultK ELSE k

\* POST /api/search
search_documents(r, exists, vecs, tmpfiles, ids) ==
    IF get_json(r).raised
    THEN {Failed("search", get_json(r).err, vecs, tmpfiles, ids, << >>)}
    ELSE IF ~r.present
    THEN {Outcome(Response("search", 400, "Query is required"),
                  vecs, tmpfiles, ids, << >>, Aux)}
    ELSE
    LET m == Initialize(r.env, exists)
    IN  IF ~m.ok
        THEN {Failed("search", ErrInit, vecs, tmpfiles, ids, m.calls)}
        ELSE { IF o.ok
               THEN Outcome([Response("search", 200, "") EXCEPT
                               !.results = o.results,
                               !.total = BagCardinality(o.results)],
                            o.vecs, tmpfiles, ids, m.calls \o o.calls, Aux)
               ELSE Failed("search", o.err, o.vecs, tmpfiles, ids,
                           m.calls \o o.calls)
               : o \in similarity_search(m, r.env, exists, vecs, KOf(r.k),
                                         r.filter, "call1_fail") }

\* POST /api/search/similar
find_similar_route(r, exists, vecs, tmpfiles, ids) ==
    IF get_json(r).raised
    THEN {Failed("similar", get_json(r).err, vecs, tmpfiles, ids, << >>)}
    ELSE IF ~r.present
    THEN {Outcome(Response("similar", 400, "Document ID is required"),
                  vecs, tmpfiles, ids, << >>, Aux)}
    ELSE
    LET m == Initialize(r.env, exists)
    IN  IF ~m.ok
        THEN {Failed("similar", ErrInit, vecs, tmpfiles, ids, m.calls)}
        ELSE { IF o.ok
               THEN Outcome([Response("similar", 200, "") EXCEPT
                               !.doc_id = r.doc_id,
                               !.results = o.results,
                               !.total = BagCardinality(o.results)],
                            o.vecs, tmpfiles, ids, m.calls \o o.calls, Aux)
               ELSE Failed("similar", o.err, o.vecs, tmpfiles, ids,
                           m.calls \o o.calls)
               : o \in find_similar_documents(m, r.env, exists, vecs,
                                              r.doc_id, KOf(r.k)) }

\* GET /api/search/stats
get_search_stats(r, exists, vecs, tmpfiles, ids) ==
    LET m == Initialize(r.env, exists)
    IN  IF ~m.ok
        THEN {Failed("stats", ErrInit, vecs, tmpfiles, ids, m.calls)}
        ELSE { IF o.ok
               THEN Outcome([Response("stats", 200, "") EXCEPT
                               !.total = o.total],
                            o.vecs, tmpfiles, ids, m.calls \o o.calls, Aux)
               ELSE Failed("stats", o.err, o.vecs, tmpfiles, ids,
                           m.calls \o o.calls)
               : o \in get_stats(m, r.env, exists, vecs) }

\* ------------------------------------------------------------------ client
\* What one call on the requests session comes to: a response with a 2xx
\* status and the server's JSON payload, a response with a 4xx or 5xx
\* status, a requests exception raised by the call itself (connection
\* refused, timeout), or an exception that is no requests exception.
Transports == {"2xx", "4xx5xx", "RequestException", "Exception"}

NoTransport == "none"

ClientMethods ==
    {"health_check", "upload_document", "list_documents", "search_documents",
     "find_similar_documents", "delete_document", "get_search_stats"}

\* the text each method puts before str(e)
ErrorPrefix(method) ==
    CASE method = "health_check"           -> "Health check failed"
      [] method = "upload_document"        -> "Upload failed"
      [] method = "list_documents"         -> "Failed to list documents"
      [] method = "search_documents"       -> "Search failed"
      [] method = "find_similar_documents" -> "Similar search failed"
      [] method = "delete_document"        -> "Delete failed"
      [] method = "get_search_stats"       -> "Failed to get stats"

HttpRequest(verb, path, doc_id) == [verb |-> verb, path |-> path, doc_id |-> doc_id]

\* the request each method sends
RequestOf(method, doc_id) ==
    CASE method = "health_check"           -> HttpRequest("GET", "/health", NoDocId)
      [] method = "upload_document"        -> HttpRequest("POST", "/api/documents", NoDocId)
      [] method = "list_documents"         -> HttpRequest("GET", "/api/documents", NoDocId)
      [] method = "search_documents"       -> HttpRequest("POST", "/api/search", NoDocId)
      [] method = "find_similar_documents" -> HttpRequest("POST", "/api/search/similar", doc_id)
      [] method = "delete_document"        -> HttpRequest("DELETE", "/api/documents/<doc_id>", doc_id)
      [] method = "get_search_stats"       -> HttpRequest("GET", "/api/search/stats", NoDocId)

\* the exception that session.get/post/delete followed by
\* response.raise_for_status() raises, "" when none
ExchangeRaises(t) ==
    CASE t = "2xx"              -> ""
      [] t = "4xx5xx"           -> "HTTPError"
      [] t = "RequestException" -> "ConnectionError"
      [] t = "Exception"        -> "Exception"

CatchesNothing(exc) == FALSE

\* except requests.RequestException: HTTPError and ConnectionError are
\* subclasses of it, a plain Exception is not
IsRequestException(exc) == exc \in {"HTTPError", "ConnectionError"}

\* what a client method comes to: a dict (error = "" when it has no 'error'
\* key) or an exception that leaves the method
ClientResult(method, t, raised, exc, error) ==
    [method |-> method, t |-> t, raised |-> raised, exc |-> exc, error |-> error]

NoResult == ClientResult("none", NoTransport, FALSE, "", "")

\* try: session call; raise_for_status(); return response.json()
\* except requests.RequestException as e: return {"error": f"...: {str(e)}"}
client_method(method, doc_id, t) ==
    LET exc == ExchangeRaises(t)
    IN  [result |-> IF exc = ""
                    THEN ClientResult(method, t, FALSE, "", "")
                    ELSE IF IsRequestException(exc)
                    THEN ClientResult(method, t, FALSE, "", ErrorPrefix(method))
                    ELSE ClientResult(method, t, TRUE, exc, ""),
         sent   |-> <<RequestOf(method, doc_id)>>]

\* os.path.splitext(file_path)[1]: from the last dot on, empty when the name
\* has no dot or nothing but dots before the last one
SplitExt(file_path) ==
    IF ~HasDot(file_path)
    THEN << >>
    ELSE LET i == LastDot(file_path)
         IN  IF \A j \in 1 .. (i - 1) : file_path[j] = Dot
             THEN << >>
             ELSE SubSeq(file_path, i, Len(file_path))

LowerAll(toks) == [i \in 1 .. Len(toks) |-> Lower(toks[i])]

ClientExtensions ==
    {<<Dot, "pdf">>, <<Dot, "txt">>, <<Dot, "docx">>, <<Dot, "xlsx">>}

\* helpers.py validate_file_type
validate_file_type(file_path) == LowerAll(SplitExt(file_path)) \in ClientExtensions

\* the file system as upload_document meets it: the path exists or not, and
\* open(file_path, 'rb') works or raises
FileStates ==
    { [exists |-> FALSE, readable |-> FALSE],
      [exists |-> TRUE, readable |-> FALSE],
      [exists |-> TRUE, readable |-> TRUE] }

client_upload_type_first(file_path, fs, t) ==
    IF ~validate_file_type(file_path)
    THEN [result |-> ClientResult("upload_document", NoTransport, FALSE, "",
                                  "File type not supported"),
          sent |-> << >>]
    ELSE IF ~fs.exists
    THEN [result |-> ClientResult("upload_document", NoTransport, FALSE, "",
                                  "File not found"),
          sent |-> << >>]
    ELSE client_method("upload_document", NoDocId, t)

\* LangChainPineconeClient.upload_document
client_upload_document(file_path, fs, t) ==
    IF ~fs.exists
    THEN [result |-> ClientResult("upload_document", NoTransport, FALSE, "",
                                  "File not found"),
          sent |-> << >>]
    ELSE IF ~validate_file_type(file_path)
    THEN [result |-> ClientResult("upload_document", NoTransport, FALSE, "",
                                  "File type not supported"),
          sent |-> << >>]
    ELSE IF ~fs.readable
    THEN [result |-> ClientResult("upload_document", NoTransport, TRUE,
                                  "OSError", ""),
          sent |-> << >>]
    ELSE client_method("upload_document", NoDocId, t)

\* A line typed at a prompt: a word, typed in upper case or not, with blanks
\* around it or not.
Typed(word, upper, pad) == [word |-> word, upper |-> upper, pad |-> pad]

Text(word) == Typed(word, FALSE, FALSE)

\* input(...).strip().lower()
StripLower(line) == Typed(line.word, FALSE, FALSE)

NoLine == Text("")

CommandWords ==
    {"quit", "q", "upload", "1", "list", "2", "search", "3", "similar", "4",
     "delete", "5", "stats", "6", "help", ""}

CommandLines ==
    { Text(w) : w \in CommandWords }
    \cup { Typed("quit", TRUE, TRUE), Typed("delete", TRUE, FALSE),
           Typed("list", FALSE, TRUE), Typed("help", TRUE, FALSE) }

ConfirmLines ==
    { Text(w) : w \in {"y", "yes", "n", "", "yeah"} }
    \cup { Typed("y", TRUE, FALSE), Typed("yes", TRUE, TRUE),
           Typed("n", TRUE, FALSE) }

ConfirmedAlways(line) == TRUE

\* confirm == 'y' or confirm == 'yes', confirm being stripped and lowered
Confirmed(line) == StripLower(line) \in {Text("y"), Text("yes")}

NeverAborts(health) == FALSE

\* `if "error" in health:` print and return
StartupAborts(health) == health.error # ""

\* one turn of the loop: the command line, and what the branch asked for
Turn(line, branch) ==
    [line |-> line, branch |-> branch, file_path |-> << >>,
     fs |-> [exists |-> FALSE, readable |-> FALSE],
     doc_id |-> NoDocId, confirm |-> NoLine]

NoTurn == Turn(NoLine, "none")

\* the branch of the if/elif chain a command line selects
BranchOf(line) ==
    LET command == StripLower(line)
    IN  CASE command \in {Text("quit"), Text("q")}    -> "quit"
          [] command \in {Text("upload"), Text("1")}  -> "upload"
          [] command \in {Text("list"), Text("2")}    -> "list"
          [] command \in {Text("search"), Text("3")}  -> "search"
          [] command \in {Text("similar"), Text("4")} -> "similar"
          [] command \in {Text("delete"), Text("5")}  -> "delete"
          [] command \in {Text("stats"), Text("6")}   -> "stats"
          [] OTHER                                    -> "unknown"

\* print(format_response(result)), or the loop's
\* `except Exception as e: print(f"Error: {str(e)}")`
PrintedFor(result) == IF result.raised THEN "Error" ELSE "format_response"

\* ---------------------------------------------------------- format_response
\* A response dict as format_response reads it: the keys it has, whether
\* 'success' is truthy, the documents list, and how many entries the
\* 'results' or 'similar_documents' list has.  A document is a dict that
\* may lack 'filename' or 'doc_id'.
ResponseKeys ==
    {"error", "success", "documents", "results", "similar_documents",
     "stats", "doc_id", "message"}

Missing == "<missing>"

DocDicts ==
    { [filename |-> "test.pdf", doc_id |-> "123"],
      [filename |-> Missing, doc_id |-> Missing] }

SeqsUpTo(S, n) == UNION { [1 .. k -> S] : k \in 0 .. n }

Responses ==
    { [keys |-> ks, success |-> ok, documents |-> docs, hits |-> h] :
        ks \in SUBSET ResponseKeys, ok \in BOOLEAN,
        docs \in SeqsUpTo(DocDicts, MaxDocs), h \in 0 .. 1 }

\* the dicts that differ in something format_response can read
ReadableResponses ==
    { r \in Responses :
        /\ "success" \notin r.keys => ~r.success
        /\ "documents" \notin r.keys => r.documents = << >>
        /\ ({"results", "similar_documents"} \cap r.keys = {}) => r.hits = 0 }

\* before any response has come
NoResponse ==
    [keys |-> {Missing}, success |-> FALSE, documents |-> << >>, hits |-> 0]

Rendering(head, entries) == [head |-> head, entries |-> entries]

NoRendering == Rendering("", << >>)

\* doc.get('filename', 'Unknown'), doc.get('doc_id', 'N/A')
DocEntry(doc) ==
    [filename |-> IF doc.filename = Missing THEN "Unknown" ELSE doc.filename,
     doc_id   |-> IF doc.doc_id = Missing THEN "N/A" ELSE doc.doc_id]

\* the lines `for i, res in enumerate(results, 1)` adds
HitEntries(n) == [i \in 1 .. n |-> [filename |-> "hit", doc_id |-> "hit"]]

\* what format_response returns once 'success' is there and truthy
FormatSuccess(r, documents_branch) ==
    IF "documents" \in r.keys
    THEN documents_branch
    ELSE IF "results" \in r.keys
    THEN IF r.hits = 0
         THEN Rendering("No results found for query", << >>)
         ELSE Rendering("Search results for", HitEntries(r.hits))
    ELSE IF "similar_documents" \in r.keys
    THEN IF r.hits = 0
         THEN Rendering("No similar documents found for ID", << >>)
         ELSE Rendering("Similar to document", HitEntries(r.hits))
    ELSE IF "stats" \in r.keys
    THEN Rendering("Vector Store Statistics:", << >>)
    ELSE IF "doc_id" \in r.keys
    THEN Rendering("Document uploaded successfully!", << >>)
    ELSE IF "message" \in r.keys
    THEN Rendering("message", << >>)
    ELSE Rendering("json.dumps", << >>)

DocumentLines(r) ==
    Rendering("Documents:", [i \in 1 .. Len(r.documents) |-> DocEntry(r.documents[i])])

format_response_no_empty_test(r) ==
    IF "error" \in r.keys
    THEN Rendering("Error:", << >>)
    ELSE IF "success" \in r.keys /\ r.success
    THEN FormatSuccess(r, DocumentLines(r))
    ELSE Rendering("json.dumps", << >>)

\* helpers.py format_response
format_response(r) ==
    IF "error" \in r.keys
    THEN Rendering("Error:", << >>)
    ELSE IF "success" \in r.keys /\ r.success
    THEN FormatSuccess(r, IF r.documents = << >>
                          THEN Rendering("No documents found", << >>)
                          ELSE DocumentLines(r))
    ELSE Rendering("json.dumps", << >>)

\* ----------------------------------------------------------- state machine
VARIABLES
    indexExists,   \* the configured index exists at the provider
    vectors,       \* the chunks stored in the index
    tmp,           \* the temporary files under /tmp
    issued,        \* the doc_ids uuid4 has returned
    req,           \* the last request
    resp,          \* its response
    calls,         \* the external calls its handler made, in order
    aux,           \* what its handler did inside
    acked,         \* doc_id -> chunks_created of its 201, while no DELETE named it
    gone           \* the doc_ids whose DELETE was answered 200

\* the command-line client (interactive_mode)
VARIABLES
    cpc,           \* where interactive_mode stands
    chealth,       \* what the startup health check returned
    ccmd,          \* what the user typed during the last turn of the loop
    cresult,       \* the client method the last step called, and its result
    csent,         \* the HTTP requests the last step sent, in order
    cprinted,      \* the last message printed
    ctotal,        \* the number of HTTP requests sent since the start
    cprompts,      \* the number of input() calls since the start
    cturns         \* the number of turns of the loop

svars == <<indexExists, vectors, tmp, issued, req, resp, calls, aux, acked, gone>>

cvars ==
    <<cpc, chealth, ccmd, cresult, csent, cprinted, ctotal, cprompts, cturns>>

\* the rendering of one response (format_response)
VARIABLES
    fin,           \* the response dict handed to format_response
    fout           \* what format_response returned

fvars == <<fin, fout>>

\* upload requests handled at the same time, one per worker thread
VARIABLES
    upc,           \* worker -> where its upload_document stands
    uname,         \* worker -> the sanitised filename of its upload
    udoc,          \* worker -> the doc_id it drew
    upath,         \* worker -> its temp_path
    ufiles,        \* the files under /tmp: path and the worker that wrote it
    uread,         \* worker -> whose content load_document read
    uremoved,      \* worker -> the writers of the files its cleanup removed
    ustatus,       \* worker -> the status its response will carry, 0 before
    uissued        \* the doc_ids uuid4 has returned

uvars == <<upc, uname, udoc, upath, ufiles, uread, uremoved, ustatus, uissued>>

\* what the steps of each part leave alone
beside_server == <<cvars, fvars, uvars>>
beside_client == <<svars, fvars, uvars>>
beside_format == <<svars, cvars, uvars>>
beside_uploads == <<svars, cvars, fvars>>

vars == <<svars, cvars, fvars, uvars>>

Workers == 1 .. MaxUploads

Nobody == 0

\* the filenames the concurrent uploads carry, already sanitised
WorkerNames == {<<"a", Dot, "txt">>, <<"a", Dot, "pdf">>}

UploadsInit ==
    /\ upc = [w \in Workers |-> "start"]
    /\ uname = [w \in Workers |-> << >>]
    /\ udoc = [w \in Workers |-> NoDocId]
    /\ upath = [w \in Workers |-> NoPath]
    /\ ufiles = {}
    /\ uread = [w \in Workers |-> Nobody]
    /\ uremoved = [w \in Workers |-> {}]
    /\ ustatus = [w \in Workers |-> 0]
    /\ uissued = {}

FormatInit ==
    /\ fin = NoResponse
    /\ fout = NoRendering

ClientInit ==
    /\ cpc = "start"
    /\ chealth = NoResult
    /\ ccmd = NoTurn
    /\ cresult = NoResult
    /\ csent = << >>
    /\ cprinted = ""
    /\ ctotal = 0
    /\ cprompts = 0
    /\ cturns = 0

NotAcked == 0 - 1

Init ==
    /\ indexExists \in BOOLEAN
    /\ vectors \in IF indexExists
                   THEN {EmptyBag, BagOf(ForeignChunk, ForeignCount)}
                   ELSE {EmptyBag}
    /\ tmp = {}
    /\ issued = {}
    /\ req = Request("none")
    /\ resp = Response("none", 0, "")
    /\ calls = << >>
    /\ aux = Aux
    /\ acked = [d \in DocIds |-> NotAcked]
    /\ gone = {}
    /\ ClientInit
    /\ FormatInit
    /\ UploadsInit

Idle == req.op = "none"

\* one request, handled to its response
Handle(r, o) ==
    /\ req' = r
    /\ resp' = o.resp
    /\ vectors' = o.vecs
    /\ tmp' = o.tmp
    /\ issued' = o.issued
    /\ calls' = o.calls
    /\ aux' = o.aux
    /\ UNCHANGED <<indexExists, beside_server>>

TwoSegments == [pages |-> 1, segs |-> 2]

\* the upload requests tried: every filename with a two-segment file and a
\* provider that works, and a.txt with every content and every failure
UploadRequests ==
    { [Request("upload") EXCEPT !.present = FALSE] }
    \cup { [Request("upload") EXCEPT !.filename = f, !.content = TwoSegments] :
             f \in FileNames }
    \cup { [Request("upload") EXCEPT !.filename = <<"a", Dot, "txt">>,
                                     !.content = c, !.env = e] :
             c \in Contents, e \in UploadEnvs }
    \cup { [Request("upload") EXCEPT !.filename = <<"a", Dot, "pdf">>,
                                     !.content = NoContent] }

Upload ==
    /\ Idle
    /\ \E r \in UploadRequests :
      \E o \in upload_document(r, indexExists, vectors, tmp, issued) :
        /\ Handle(r, o)
        /\ acked' = IF o.resp.status = 201
                    THEN [acked EXCEPT ![o.resp.doc_id] = o.resp.chunks_created]
                    ELSE acked
        /\ UNCHANGED gone

ListDocuments ==
    /\ Idle
    /\ \E e \in Envs :
      LET r == [Request("list") EXCEPT !.env = e]
      IN  \E o \in list_documents_route(r, indexExists, vectors, tmp, issued) :
            /\ Handle(r, o)
            /\ UNCHANGED <<acked, gone>>

DeleteDocument ==
    /\ Idle
    /\ \E d \in DocIds, e \in Envs :
      LET r == [Request("delete") EXCEPT !.doc_id = d, !.env = e]
      IN  \E o \in delete_document_route(r, indexExists, vectors, tmp, issued) :
            /\ Handle(r, o)
            /\ acked' = [acked EXCEPT ![d] = NotAcked]
            /\ gone' = IF o.resp.status = 200 THEN gone \cup {d} ELSE gone

SearchRequests ==
    { [Request("search") EXCEPT !.present = FALSE] }
    \cup { [Request("search") EXCEPT !.present = FALSE, !.json = j] :
             j \in JsonBodies }
    \cup { [Request("search") EXCEPT !.k = k, !.filter = f] :
             k \in Ks, f \in {FilterAll} \cup { FilterEq(d) : d \in DocIds } }
    \cup { [Request("search") EXCEPT !.env = e] : e \in Envs1 }

Search ==
    /\ Idle
    /\ \E r \in SearchRequests :
      \E o \in search_documents(r, indexExists, vectors, tmp, issued) :
        /\ Handle(r, o)
        /\ UNCHANGED <<acked, gone>>

SimilarRequests ==
    { [Request("similar") EXCEPT !.present = FALSE] }
    \cup { [Request("similar") EXCEPT !.present = FALSE, !.json = j] :
             j \in JsonBodies }
    \cup { [Request("similar") EXCEPT !.doc_id = d, !.k = k] :
             d \in DocIds, k \in Ks }
    \cup { [Request("similar") EXCEPT !.doc_id = d, !.env = e] :
             d \in DocIds, e \in Envs }

FindSimilar ==
    /\ Idle
    /\ \E r \in SimilarRequests :
      \E o \in find_similar_route(r, indexExists, vectors, tmp, issued) :
        /\ Handle(r, o)
        /\ UNCHANGED <<acked, gone>>

Stats ==
    /\ Idle
    /\ \E e \in Envs1 :
      LET r == [Request("stats") EXCEPT !.env = e]
      IN  \E o \in get_search_stats(r, indexExists, vectors, tmp, issued) :
            /\ Handle(r, o)
            /\ UNCHANGED <<acked, gone>>

\* GET /health
Health ==
    /\ Idle
    /\ req' = Request("health")
    /\ resp' = Response("health", 200, "")
    /\ calls' = << >>
    /\ aux' = Aux
    /\ UNCHANGED <<indexExists, vectors, tmp, issued, acked, gone, beside_server>>

\* flask init-db: VectorStoreManager().init_index(), errors echoed
InitDb ==
    /\ Idle
    /\ \E e \in Envs :
      LET r == [Request("init-db") EXCEPT !.env = e]
          m == Initialize(e, indexExists)
          i == init_index(m, e, indexExists)
      IN  /\ req' = r
          /\ resp' = Response("init-db", 0,
                              IF ~m.ok THEN ErrInit
                              ELSE IF ~i.ok THEN ErrProvider ELSE "")
          /\ indexExists' = IF m.ok THEN i.exists ELSE indexExists
          /\ calls' = IF m.ok THEN m.calls \o i.calls ELSE m.calls
          /\ aux' = [Aux EXCEPT !.vector_store = m.ok /\ i.vector_store,
                                !.created = IF m.ok THEN i.created ELSE 0,
                                !.raised = IF ~m.ok THEN ErrInit
                                           ELSE IF ~i.ok THEN ErrProvider
                                           ELSE ""]
          /\ UNCHANGED <<vectors, tmp, issued, acked, gone, beside_server>>

\* the response has gone out; the server waits for the next request
Deliver ==
    /\ ~Idle
    /\ req' = Request("none")
    /\ resp' = Response("none", 0, "")
    /\ calls' = << >>
    /\ aux' = Aux
    /\ UNCHANGED <<indexExists, vectors, tmp, issued, acked, gone, beside_server>>

Next ==
    \/ Deliver
    \/ Upload
    \/ ListDocuments
    \/ DeleteDocument
    \/ Search
    \/ FindSimilar
    \/ Stats
    \/ Health
    \/ InitDb

Spec == Init /\ [][Next]_vars

\* ------------------------------------------------- the client's state machine
\* interactive_mode up to the loop: the health check and the test on it
ReplStart ==
    /\ cpc = "start"
    /\ \E t \in Transports :
         LET c == client_method("health_check", NoDocId, t)
         IN  /\ chealth' = c.result
             /\ cresult' = c.result
             /\ csent' = c.sent
             /\ ctotal' = ctotal + Len(c.sent)
             /\ cpc' = IF c.result.raised THEN "raised"
                       ELSE IF StartupAborts(c.result) THEN "returned"
                       ELSE "prompt"
             /\ cprinted' = IF c.result.raised THEN ""
                            ELSE IF StartupAborts(c.result)
                            THEN "Server connection failed"
                            ELSE "Server is running"
    /\ UNCHANGED <<ccmd, cprompts, cturns, beside_client>>

AtPrompt == cpc = "prompt" /\ cturns < MaxTurns

LoopEndsOnError(result) == IF result.raised THEN "raised" ELSE "prompt"

\* where the loop stands after a turn that called a client method: the
\* result was printed, or `except Exception` printed the error; neither
\* path has a break
LoopAfter(result) == "prompt"

\* a turn that called one client method: what it leaves
Called(turn, c, prompts) ==
    /\ ccmd' = turn
    /\ cresult' = c.result
    /\ csent' = c.sent
    /\ ctotal' = ctotal + Len(c.sent)
    /\ cprinted' = PrintedFor(c.result)
    /\ cprompts' = cprompts + prompts
    /\ cturns' = cturns + 1
    /\ cpc' = LoopAfter(c.result)
    /\ UNCHANGED <<chealth, beside_client>>

\* a turn that called no client method
Said(turn, message, prompts, pc) ==
    /\ ccmd' = turn
    /\ cresult' = NoResult
    /\ csent' = << >>
    /\ cprinted' = message
    /\ cprompts' = cprompts + prompts
    /\ cturns' = cturns + 1
    /\ cpc' = pc
    /\ UNCHANGED <<ctotal, chealth, beside_client>>

ReplQuit ==
    /\ AtPrompt
    /\ \E line \in CommandLines :
         /\ BranchOf(line) = "quit"
         /\ Said(Turn(line, "quit"), "Goodbye!", 1, "returned")

ReplUpload ==
    /\ AtPrompt
    /\ \E line \in CommandLines :
         /\ BranchOf(line) = "upload"
         /\ \E f \in FileNames, fs \in FileStates :
              \E c \in { client_upload_document(f, fs, t) : t \in Transports } :
                Called([Turn(line, "upload") EXCEPT !.file_path = f,
                                                    !.fs = fs], c, 2)

ReplList ==
    /\ AtPrompt
    /\ \E line \in CommandLines, t \in Transports :
         /\ BranchOf(line) = "list"
         /\ Called(Turn(line, "list"),
                   client_method("list_documents", NoDocId, t), 1)

ReplSearch ==
    /\ AtPrompt
    /\ \E line \in CommandLines, t \in Transports :
         /\ BranchOf(line) = "search"
         /\ Called(Turn(line, "search"),
                   client_method("search_documents", NoDocId, t), 3)

ReplSimilar ==
    /\ AtPrompt
    /\ \E line \in CommandLines, d \in DocIds, t \in Transports :
         /\ BranchOf(line) = "similar"
         /\ Called([Turn(line, "similar") EXCEPT !.doc_id = d],
                   client_method("find_similar_documents", d, t), 3)

ReplDelete ==
    /\ AtPrompt
    /\ \E line \in CommandLines :
         /\ BranchOf(line) = "delete"
         /\ \E d \in DocIds, confirm \in ConfirmLines :
              LET turn == [Turn(line, "delete") EXCEPT !.doc_id = d,
                                                       !.confirm = confirm]
              IN  IF Confirmed(confirm)
                  THEN \E t \in Transports :
                         Called(turn, client_method("delete_document", d, t), 3)
                  ELSE Said(turn, "Delete cancelled.", 3, "prompt")

ReplStats ==
    /\ AtPrompt
    /\ \E line \in CommandLines, t \in Transports :
         /\ BranchOf(line) = "stats"
         /\ Called(Turn(line, "stats"),
                   client_method("get_search_stats", NoDocId, t), 1)

ReplUnknown ==
    /\ AtPrompt
    /\ \E line \in CommandLines :
         /\ BranchOf(line) = "unknown"
         /\ Said(Turn(line, "unknown"), "Unknown command", 1, "prompt")

\* Ctrl-C at the command prompt: except KeyboardInterrupt: break
ReplInterrupt ==
    /\ AtPrompt
    /\ Said(Turn(NoLine, "interrupt"), "Goodbye!", 1, "returned")

\* input() raises at the command prompt (end of input):
\* except Exception as e: print(f"Error: ...") and the loop goes on
ReplInputError ==
    /\ AtPrompt
    /\ Said(Turn(NoLine, "input error"), "Error", 1, "prompt")

ClientNext ==
    \/ ReplStart
    \/ ReplQuit
    \/ ReplUpload
    \/ ReplList
    \/ ReplSearch
    \/ ReplSimilar
    \/ ReplDelete
    \/ ReplStats
    \/ ReplUnknown
    \/ ReplInterrupt
    \/ ReplInputError

\* the client alone: the server's variables stay at one initial value
InitClient == Init /\ ~indexExists

SpecClient == InitClient /\ [][ClientNext]_vars

\* -------------------------------------------- format_response on its own
\* a caller has a response dict at hand
Receive ==
    /\ fin = NoResponse
    /\ fin' \in ReadableResponses
    /\ UNCHANGED <<fout, beside_format>>

\* print(format_response(result))
Format ==
    /\ fin # NoResponse
    /\ fout = NoRendering
    /\ fout' = format_response(fin)
    /\ UNCHANGED <<fin, beside_format>>

FormatNext == Receive \/ Format

SpecFormat == InitClient /\ [][FormatNext]_vars

\* ------------------------------------- upload_document, several at a time
\* The statements of upload_document that touch /tmp, one step each, for
\* requests that passed validation.
File(path, writer) == [path |-> path, writer |-> writer]

\* file.save(temp_path): creates the file or replaces what is there
Written(files, path, w) ==
    { f \in files : f.path # path } \cup {File(path, w)}

\* doc_id = str(uuid.uuid4()); temp_path = f"/tmp/{doc_id}_{filename}"
UDraw(w) ==
    /\ upc[w] = "start"
    /\ \E name \in WorkerNames, d \in NewDocId(uissued, EmptyBag) :
         /\ uname' = [uname EXCEPT ![w] = name]
         /\ udoc' = [udoc EXCEPT ![w] = d]
         /\ upath' = [upath EXCEPT ![w] = TempPath(d, name)]
         /\ uissued' = uissued \cup {d}
    /\ upc' = [upc EXCEPT ![w] = "drawn"]
    /\ UNCHANGED <<ufiles, uread, uremoved, ustatus, beside_uploads>>

\* file.save(temp_path), outside the try: it works, or raises before or
\* after it created the file
USave(w) ==
    /\ upc[w] = "drawn"
    /\ \E how \in {"ok", "save_fail", "save_partial"} :
         /\ ufiles' = IF how = "save_fail" THEN ufiles
                      ELSE Written(ufiles, upath[w], w)
         /\ upc' = [upc EXCEPT ![w] = IF how = "ok" THEN "saved" ELSE "done"]
         /\ ustatus' = [ustatus EXCEPT ![w] = IF how = "ok" THEN 0 ELSE 500]
    /\ UNCHANGED <<uname, udoc, upath, uread, uremoved, uissued, beside_uploads>>

\* load_document(temp_path, filename): reads what is at temp_path
ULoad(w) ==
    /\ upc[w] = "saved"
    /\ uread' = [uread EXCEPT ![w] =
                    IF \E f \in ufiles : f.path = upath[w]
                    THEN (CHOOSE f \in ufiles : f.path = upath[w]).writer
                    ELSE Nobody]
    /\ \E ok \in BOOLEAN :
         /\ upc' = [upc EXCEPT ![w] = IF ok THEN "loaded" ELSE "finally"]
         /\ ustatus' = [ustatus EXCEPT ![w] = IF ok THEN 0 ELSE 500]
    /\ UNCHANGED <<uname, udoc, upath, ufiles, uremoved, uissued, beside_uploads>>

\* split, tag, VectorStoreManager().add_documents(texts): no file is
\* touched; the response is 201, or 500 when one of them raises
UStore(w) ==
    /\ upc[w] = "loaded"
    /\ upc' = [upc EXCEPT ![w] = "finally"]
    /\ \E status \in {201, 500} : ustatus' = [ustatus EXCEPT ![w] = status]
    /\ UNCHANGED <<uname, udoc, upath, ufiles, uread, uremoved, uissued,
                   beside_uploads>>

\* finally: if os.path.exists(temp_path): os.remove(temp_path)
UCleanup(w) ==
    /\ upc[w] = "finally"
    /\ ufiles' = { f \in ufiles : f.path # upath[w] }
    /\ uremoved' = [uremoved EXCEPT ![w] =
                       { f.writer : f \in { g \in ufiles : g.path = upath[w] } }]
    /\ upc' = [upc EXCEPT ![w] = "done"]
    /\ UNCHANGED <<uname, udoc, upath, uread, ustatus, uissued, beside_uploads>>

UploadsNext ==
    \E w \in Workers :
        \/ UDraw(w)
        \/ USave(w)
        \/ ULoad(w)
        \/ UStore(w)
        \/ UCleanup(w)

SpecUploads == InitClient /\ [][UploadsNext]_vars


\* ------------------------------------------------------------------ claims
HasChunks(vecs, doc_id) == \E c \in BagToSet(vecs) : c.doc_id = doc_id

Entries(documents, doc_id) == { e \in documents : e.doc_id = doc_id }

\* C1: after an upload answered 201 with doc_id d and chunks_created n, every
\* later successful GET /api/documents, no DELETE of d in between, lists
\* exactly one entry for d, with chunk_count n.  (Stated for n >= 1; an
\* upload answered 201 with n = 0 stores nothing and is never listed.)
C1_ListsEveryUploadedDocument ==
    (resp.op = "list" /\ resp.status = 200) =>
        \A d \in DocIds :
            acked[d] >= 1 =>
                /\ Cardinality(Entries(resp.documents, d)) = 1
                /\ \A e \in Entries(resp.documents, d) : e.chunk_count = acked[d]

\* C2: once DELETE /api/documents/<d> was answered 200, no chunk that carries
\* doc_id d is in the index and no later listing names d.
C2_DeletedDocumentIsGone ==
    \A d \in gone :
        /\ ~HasChunks(vectors, d)
        /\ (resp.op = "list" /\ resp.status = 200) =>
               Entries(resp.documents, d) = {}

\* an upload request the route must reject: no 'file' part, an empty
\* filename, a filename whose extension is not an allowed one
Rejected(r) ==
    \/ ~r.present
    \/ r.filename = << >>
    \/ ~HasDot(r.filename)
    \/ ExtOf(r.filename) \notin ALLOWED_EXTENSIONS

\* C3: an upload without file part, with an empty filename or with a
\* disallowed extension is answered 400 and has no side effect: no doc_id is
\* drawn, no temporary file written, no manager built, no external call made,
\* and the index is left as it was.
C3_RejectedBeforeAnySideEffect ==
    [][ (req'.op = "upload" /\ Rejected(req')) =>
            /\ resp'.status = 400
            /\ issued' = issued
            /\ aux'.doc_id = NoDocId
            /\ tmp' = tmp
            /\ aux'.temp_path = NoPath
            /\ calls' = << >>
            /\ vectors' = vectors ]_vars

C3_Witness ==
    /\ req.op = "upload"
    /\ req.filename = <<"a", Dot, "exe">>
    /\ resp.status = 400
    /\ resp.err = "File type not allowed"

\* C4 as claimed: a DELETE for a doc_id with no matching vector is answered
\* 404 in every state of the index, also when the index was never created.
C4_MissingDocumentAlways404 ==
    [][ (req'.op = "delete" /\ req'.env = "ok"
         /\ ~HasChunks(vectors, req'.doc_id)) =>
            resp'.status = 404 ]_vars

\* C4 as amended: a DELETE for a doc_id with no matching vector is answered
\* 404 'Document not found' when the index exists and the provider answers,
\* and 500 'Vector store not initialized' when the index was never created;
\* neither changes the index.
C4_MissingDocument404 ==
    [][ (req'.op = "delete" /\ req'.env = "ok"
         /\ ~HasChunks(vectors, req'.doc_id)) =>
            /\ vectors' = vectors
            /\ indexExists =>
                   (resp'.status = 404 /\ resp'.err = "Document not found")
            /\ ~indexExists =>
                   (resp'.status = 500 /\ resp'.err = ErrNotInitialized) ]_vars

C4_Witness ==
    /\ req.op = "delete"
    /\ req.env = "ok"
    /\ resp.status = 404
    /\ vectors # EmptyBag
    /\ ~HasChunks(vectors, req.doc_id)

\* C5: the list find_similar_documents(d, k) returns holds no chunk of d and
\* at most k entries.
C5_SimilarExcludesReference ==
    (resp.op = "similar" /\ resp.status = 200) =>
        /\ \A c \in BagToSet(resp.results) : c.doc_id # req.doc_id
        /\ BagCardinality(resp.results) <= KOf(req.k)

\* k results came back although more than k chunks of other documents are
\* stored: the extra one was cut off
C5_Witness ==
    /\ resp.op = "similar"
    /\ resp.status = 200
    /\ req.k >= 1
    /\ BagCardinality(resp.results) = req.k
    /\ BagCardinality(Matching(vectors, FilterNe(req.doc_id))) > req.k
    /\ \E c \in BagToSet(resp.results) : c.doc_id \in DocIds

\* C6: when the upload handler has answered, the temporary file it wrote for
\* the request is gone.
C6_TempFileRemoved ==
    (resp.op = "upload" /\ aux.saved) => aux.temp_path \notin tmp

\* C7: a successful upload adds to the index exactly the segments the splitter
\* produced, all tagged with the one doc_id and the filename of the response,
\* and chunks_created is their number, the number handed to add_documents.
C7_UploadStoresTaggedSegments ==
    [][ (req'.op = "upload" /\ resp'.status = 201) =>
            LET n == split_documents(aux'.docs, req'.content)
                tagged == BagOf(Chunk(resp'.doc_id, resp'.filename), n)
            IN  /\ vectors' = vectors (+) tagged
                /\ aux'.texts = tagged
                /\ aux'.doc_id = resp'.doc_id
                /\ resp'.chunks_created = n ]_vars

C7_Witness ==
    /\ req.op = "upload"
    /\ resp.status = 201
    /\ resp.chunks_created = 2
    /\ aux.docs = 1
    /\ BagCardinality(Matching(vectors, FilterEq(resp.doc_id))) = 2

ManagerOps == {"upload", "list", "delete", "search", "similar", "stats"}

\* C9: when the index does not exist as the manager is built, the operation
\* the route calls fails with 'Vector store not initialized', the route
\* answers 500 with that message, and no call follows the constructor's.
C9_UninitializedStoreFails ==
    (/\ req.op \in ManagerOps
     /\ ~indexExists
     /\ req.env # "init_fail"
     /\ calls # << >>) =>
        /\ resp.status = 500
        /\ resp.err = ErrNotInitialized
        /\ calls = InitCalls

C9_Witness ==
    /\ req.op = "upload"
    /\ ~indexExists
    /\ aux.texts # EmptyBag
    /\ resp.status = 500
    /\ resp.err = ErrNotInitialized

\* C10: POST /api/search/similar that names a doc_id no stored chunk carries
\* is answered 404.
C10_UnknownDocumentIs404 ==
    (/\ resp.op = "similar"
     /\ req.present
     /\ req.env = "ok"
     /\ indexExists
     /\ ~HasChunks(vectors, req.doc_id)) =>
        resp.status = 404

\* C11: a POST /api/search whose body has no 'query', and a POST
\* /api/search/similar whose body has no 'doc_id' (a missing body or one
\* that is not a JSON object included), is answered 400 with the route's
\* "... is required" error, and its handler makes no external call.
C11_MissingFieldIs400 ==
    (req.op \in {"search", "similar"} /\ (req.json # "object" \/ ~req.present)) =>
        /\ resp.status = 400
        /\ resp.err = IF req.op = "search" THEN "Query is required"
                      ELSE "Document ID is required"
        /\ calls = << >>

Occurrences(log, call) == Cardinality({ i \in 1 .. Len(log) : log[i] = call })

\* C17: a successful init_index leaves the index existing and the manager's
\* vector_store set; on an absent index it calls create_index exactly once,
\* on a present one it does not call it.  An index that exists stays, and
\* create_index goes through only on an absent index, so over any number of
\* init-db runs the index is created at most once.
C17_InitIndexIdempotent ==
    [][ /\ indexExists => indexExists'
        /\ aux'.created = 1 => (~indexExists /\ indexExists')
        /\ (req'.op = "init-db" /\ req.op = "none" /\ resp'.err = "") =>
              /\ indexExists'
              /\ aux'.vector_store
              /\ IF indexExists
                 THEN /\ Occurrences(calls', "create_index") = 0
                      /\ aux'.created = 0
                 ELSE /\ Occurrences(calls', "create_index") = 1
                      /\ aux'.created = 1 ]_vars

\* a successful init-db that found the index absent and created it
C17_Witness ==
    /\ req.op = "init-db"
    /\ resp.err = ""
    /\ aux.created = 1
    /\ aux.vector_store
    /\ indexExists

\* C18: no handler repeats a call: every call site appears at most once in
\* the log of one request, and a request during which the provider raised
\* ends with an error (500; for init-db, the echoed error).
C18_NoRetry ==
    /\ \A i \in 1 .. Len(calls) : Occurrences(calls, calls[i]) = 1
    /\ resp.err \in {ErrInit, ErrProvider} =>
           /\ req.env # "ok" \/ ~indexExists
           /\ resp.status = IF req.op = "init-db" THEN 0 ELSE 500

\* a request whose second data call raised
C18_Witness ==
    /\ req.op = "delete"
    /\ req.env = "call2_fail"
    /\ resp.err = ErrProvider
    /\ calls[Len(calls)] = "index.delete"

\* C19: when add_documents raises after the provider stored some of the
\* segments, the upload is answered 500, no delete is issued, and the stored
\* segments stay in the index under the doc_id of that upload.
C19_PartialUploadStays ==
    (req.op = "upload" /\ aux.handed /\ resp.status # 201) =>
        /\ resp.status = 500
        /\ Occurrences(calls, "index.delete") = 0
        /\ CountOf(vectors, aux.doc_id) = aux.written
        /\ aux.written <= BagCardinality(aux.texts)

\* a failed upload that left some, not all, of its segments in the index
C19_Witness ==
    /\ req.op = "upload"
    /\ resp.status = 500
    /\ aux.handed
    /\ 0 < CountOf(vectors, aux.doc_id)
    /\ CountOf(vectors, aux.doc_id) < BagCardinality(aux.texts)

RouteOps == {"upload", "list", "delete", "search", "similar", "stats"}

\* C20: whatever the manager or the loader raises while a route handles a
\* request (store construction, store not initialised, provider failure,
\* loader failure) comes out as a 500 whose error text carries the message
\* raised; a route that caught nothing does not answer 500.
C20_FailureIs500WithMessage ==
    req.op \in RouteOps =>
        /\ aux.raised # "" => (resp.status = 500 /\ resp.err = aux.raised)
        /\ resp.status = 500 => aux.raised # ""
        /\ (req.env = "init_fail" /\ calls # << >>) =>
               (resp.status = 500 /\ resp.err = ErrInit)
        /\ (req.op \in ManagerOps /\ calls = InitCalls /\ req.env # "init_fail") =>
               (resp.status = 500 /\ resp.err = ErrNotInitialized)

\* a provider failure inside a manager method, answered 500 with its message
C20_Witness ==
    /\ req.op = "list"
    /\ req.env = "call2_fail"
    /\ resp.status = 500
    /\ resp.err = ErrProvider
    /\ aux.raised = ErrProvider

\* C12: a client method whose HTTP exchange failed, by a connection failure
\* or by a 4xx/5xx status, returns a dict with an 'error' key and does not
\* raise; and no client call sends more than one request.
C12_FailedExchangeGivesErrorDict ==
    /\ (cresult.method \in ClientMethods
        /\ cresult.t \in {"4xx5xx", "RequestException"}) =>
           (~cresult.raised /\ cresult.error # "")
    /\ Len(csent) <= 1

\* delete_document answered 404 by the server
C12_Witness ==
    /\ cresult.method = "delete_document"
    /\ cresult.t = "4xx5xx"
    /\ ~cresult.raised
    /\ cresult.error = "Delete failed"

\* C13: health_check returns a dict whose error holds 'Health check failed',
\* and does not raise, whatever exception the session GET raised.
C13_HealthCheckCatchesAnyException ==
    (cresult.method = "health_check" /\ cresult.t # "2xx") =>
        (~cresult.raised /\ cresult.error = "Health check failed")

\* C14: the client's upload_document sends nothing when the path does not
\* exist ('File not found', whatever the extension) or when it exists with
\* an extension other than .pdf/.txt/.docx/.xlsx in any letter case ('File
\* type not supported'); a supported extension in upper case passes.
C14_LocalChecksSendNothing ==
    cresult.method = "upload_document" =>
        /\ ~ccmd.fs.exists =>
               (cresult.error = "File not found" /\ csent = << >>)
        /\ (ccmd.fs.exists /\ ~validate_file_type(ccmd.file_path)) =>
               (cresult.error = "File type not supported" /\ csent = << >>)
        /\ (ccmd.fs.exists /\ ccmd.fs.readable
            /\ ccmd.file_path \in {<<"a", Dot, "TXT">>, <<"a", Dot, "pdf">>}) =>
               csent = <<RequestOf("upload_document", NoDocId)>>
        /\ (ccmd.fs.exists
            /\ ccmd.file_path \in {<<"a", Dot, "exe">>, <<"a">>, <<"a", Dot>>, << >>}) =>
               csent = << >>

\* a path that does not exist and has an unsupported extension
C14_Witness ==
    /\ cresult.method = "upload_document"
    /\ ~ccmd.fs.exists
    /\ ccmd.file_path = <<"a", Dot, "exe">>
    /\ cresult.error = "File not found"
    /\ csent = << >>

\* C15: when the startup health check returned an error, interactive_mode
\* has returned: it never read a prompt and sent nothing but the one
\* GET /health.
C15_FailedHealthCheckEndsSession ==
    (chealth.method = "health_check" /\ chealth.error # "") =>
        /\ cpc = "returned"
        /\ cprompts = 0
        /\ cturns = 0
        /\ ctotal = 1
        /\ csent = <<RequestOf("health_check", NoDocId)>>

\* the server was not reachable at startup
C15_Witness ==
    /\ cpc = "returned"
    /\ chealth.t = "RequestException"
    /\ chealth.error = "Health check failed"
    /\ cprinted = "Server connection failed"

YesWords == {"y", "yes"}

\* C16: a turn of the loop sends a DELETE only in the delete branch, for the
\* doc_id it asked about and after the confirmation was answered y or yes
\* in any letter case; after any other answer it sends nothing and prints
\* 'Delete cancelled.'.
C16_DeleteOnlyAfterConfirmation ==
    /\ \A i \in 1 .. Len(csent) :
          csent[i].verb = "DELETE" =>
              /\ ccmd.branch = "delete"
              /\ ccmd.confirm.word \in YesWords
              /\ csent[i].doc_id = ccmd.doc_id
    /\ ccmd.branch = "delete" =>
          IF ccmd.confirm.word \in YesWords
          THEN csent = <<RequestOf("delete_document", ccmd.doc_id)>>
          ELSE csent = << >> /\ cprinted = "Delete cancelled."

\* a delete confirmed with an upper-case YES
C16_Witness ==
    /\ ccmd.branch = "delete"
    /\ ccmd.confirm = Typed("yes", TRUE, TRUE)
    /\ Len(csent) = 1
    /\ csent[1].verb = "DELETE"
    /\ csent[1].doc_id = ccmd.doc_id

Rendered == fin # NoResponse /\ fout # NoRendering

\* C21: format_response renders a successful response with an empty
\* 'documents' list as 'No documents found', without the 'Documents:'
\* header; one with a non-empty list as the header followed by one entry per
\* document, in order, showing its filename and doc_id; and any response
\* that has an 'error' key as an error, whatever its other keys.
C21_FormatResponseDocuments ==
    Rendered =>
        /\ "error" \in fin.keys => fout = Rendering("Error:", << >>)
        /\ ("error" \notin fin.keys /\ "success" \in fin.keys /\ fin.success
            /\ "documents" \in fin.keys) =>
               IF fin.documents = << >>
               THEN fout = Rendering("No documents found", << >>)
               ELSE /\ fout.head = "Documents:"
                    /\ Len(fout.entries) = Len(fin.documents)
                    /\ \A i \in 1 .. Len(fin.documents) :
                         LET doc == fin.documents[i]
                         IN  /\ doc.filename # Missing =>
                                   fout.entries[i].filename = doc.filename
                             /\ doc.doc_id # Missing =>
                                   fout.entries[i].doc_id = doc.doc_id

\* the empty listing of the test, rendered
C21_Witness ==
    /\ fin.keys = {"success", "documents"}
    /\ fin.success
    /\ fin.documents = << >>
    /\ fout.head = "No documents found"

ChunkKinds(a, b) == BagToSet(a) \cup BagToSet(b)

\* C22: the index changes only in an upload or a delete step; an upload
\* only adds chunks, all carrying the doc_id it drew, and leaves every chunk
\* already stored as it was; a delete of doc_id d removes chunks of d only
\* and leaves the chunks of every other document as they were.
C22_ChunksCreatedByUploadRemovedByOwnDelete ==
    [][ /\ vectors' # vectors => req'.op \in {"upload", "delete"}
        /\ req'.op = "upload" =>
              \A c \in ChunkKinds(vectors, vectors') :
                  /\ CopiesIn(c, vectors') >= CopiesIn(c, vectors)
                  /\ CopiesIn(c, vectors') > CopiesIn(c, vectors) =>
                        (c.doc_id = aux'.doc_id /\ c.doc_id \in DocIds \ issued)
        /\ req'.op = "delete" =>
              \A c \in ChunkKinds(vectors, vectors') :
                  IF c.doc_id = req'.doc_id
                  THEN CopiesIn(c, vectors') <= CopiesIn(c, vectors)
                  ELSE CopiesIn(c, vectors') = CopiesIn(c, vectors) ]_vars

\* a delete that removed its document while another one was stored
C22_Witness ==
    /\ req.op = "delete"
    /\ resp.status = 200
    /\ ~HasChunks(vectors, req.doc_id)
    /\ \E c \in BagToSet(vectors) : c.doc_id \in DocIds \ {req.doc_id}

RECURSIVE SumOfCounts(_)
SumOfCounts(entries) ==
    IF entries = {}
    THEN 0
    ELSE LET e == CHOOSE x \in entries : TRUE
         IN  e.chunk_count + SumOfCounts(entries \ {e})

SampledIds(sample) == { c.doc_id : c \in BagToSet(sample) } \ {NoDocId}

C24_AcceptedUploadKeepsItsExtension ==
    (req.op = "upload" /\ req.present /\ req.filename # << >>
     /\ allowed_file(req.filename)) =>
        /\ HasDot(secure_filename(req.filename))
        /\ ExtOf(secure_filename(req.filename)) = ExtOf(req.filename)
        /\ resp.err \notin {"IndexError", "Unsupported file type"}

\* C25: with several uploads in progress at once, no two of them have the
\* same temp path; every file under /tmp was written by the worker whose
\* temp path it is; a worker that has saved its file and not yet cleaned up
\* still has it, as it wrote it; load_document reads the worker's own
\* content; and a cleanup removes no file but the worker's own.
C25_TempFilesAreNotShared ==
    /\ \A v, w \in Workers :
          (v # w /\ udoc[v] # NoDocId /\ udoc[w] # NoDocId) => upath[v] # upath[w]
    /\ \A f \in ufiles : udoc[f.writer] # NoDocId /\ upath[f.writer] = f.path
    /\ \A w \in Workers :
          /\ upc[w] \in {"saved", "loaded", "finally"} =>
                File(upath[w], w) \in ufiles
          /\ upc[w] \in {"loaded", "finally"} => uread[w] = w
          /\ uremoved[w] \subseteq {w}

\* one upload has cleaned up while another of the same filename still works
\* on its own file
C25_Witness ==
    \E v, w \in Workers :
        /\ v # w
        /\ uname[v] = uname[w]
        /\ upc[v] = "done"
        /\ uremoved[v] = {v}
        /\ upc[w] = "loaded"
        /\ File(upath[w], w) \in ufiles
        /\ ustatus[v] = 201

ReadOnlyOps == {"health", "list", "search", "similar", "stats"}

\* the external calls that change the provider's state
WritingCalls == {"create_index", "vs.add_documents", "index.delete"}

\* C26: a step that handles GET /health, GET /api/documents, POST
\* /api/search, POST /api/search/similar or GET /api/search/stats, whatever
\* its answer, leaves the index as it was (its existence and every stored
\* vector), makes no creating, adding or deleting call, and leaves nothing
\* else behind either: no temporary file, no doc_id drawn.
C26_ReadOnlyRoutesLeaveIndexAlone ==
    [][req'.op \in ReadOnlyOps =>
          /\ UNCHANGED <<indexExists, vectors, tmp, issued>>
          /\ \A i \in 1 .. Len(calls') : calls'[i] \notin WritingCalls
          /\ aux'.created = 0
          /\ aux'.written = 0]_vars

\* a similarity request answered with results from a filled index
C26_Witness ==
    /\ req.op = "similar"
    /\ resp.status = 200
    /\ resp.results # EmptyBag
    /\ BagCardinality(vectors) > BagCardinality(resp.results)

\* the turns of the loop that take a break
EndingBranches == {"quit", "interrupt"}

=============================================================================
